---- MODULE Spec2Model ----
(***************************************************************************)
(* Model of analyze_impossible_exclusions.py: a run loads the task         *)
(* definitions and the run dataset, splits the rows on the result column,  *)
(* aggregates the possible rows, builds the classified records and writes  *)
(* the detailed and the summary report.                                    *)
(***************************************************************************)
EXTENDS Integers, Sequences, FiniteSets

\* ---------------------------------------------------------------- bounds
MaxRows == 2
MaxTests == 1
MaxRuns == 2

\* ------------------------------------------------------------ input data
\* pandas' missing value (float nan) of an empty csv cell
NaN == "<NaN>"
\* Python's None (JSON null)
None == "<None>"

\* task ids a row of the dataset may carry / a task definition may carry
RowTaskIds == {1, 2}
TestTaskIds == {1}

ImpossibleLabels == {"Exclude - Invalid Answer", "Exclude - Invalid Environment"}
Results == {"PASS", "FAIL", NaN} \cup ImpossibleLabels
OverrideReasons == {NaN, "env down"}

\* JSON objects are records; {} is the record with no field
EmptyObj == [k \in {} |-> ""]
SomeEval == [eval_types |-> <<"string_match">>, reference_answers |-> "42"]
NoEvalData == [eval_types |-> <<>>, note |-> "No eval data"]

\* a JSON value that is an object, and one that is a string
JObj(o) == [kind |-> "object", obj |-> o]
JStr(s) == [kind |-> "string", str |-> s]

\* the objects of webarena_tests.json: task_id and an optional eval
TestDefs ==
    UNION {{[task_id |-> t],
            [task_id |-> t, eval |-> EmptyObj],
            [task_id |-> t, eval |-> SomeEval]} : t \in TestTaskIds}

\* the rows of Latest_Runs_Dataset.csv
AllRows ==
    [task_id : RowTaskIds, result : Results, site : {"shopping"},
     intent : {"buy"}, created_at : {"2025-01-01"}, run_id : {"r1"},
     result_override_reason : OverrideReasons]

\* the rows drawn: two per result, and every pair of values of task_id, result
\* and result_override_reason occurs in one of them
Rows ==
    {r \in AllRows :
        (r.task_id = 1) =
            ((r.result_override_reason = NaN) =
                (r.result \in {"PASS", "Exclude - Invalid Answer", NaN}))}

SeqsUpTo(S, n) == UNION {[1..k -> S] : k \in 0..n}

\* an input file: missing, malformed, or readable with its parsed content
InputFiles(contents) ==
    {[status |-> "missing", data |-> <<>>], [status |-> "malformed", data |-> <<>>]}
        \cup {[status |-> "ok", data |-> d] : d \in contents}

\* an output file: the JSON documents it holds (none when it does not exist)
NoFile == [exists |-> FALSE, docs |-> <<>>]
StaleFile == [exists |-> TRUE, docs |-> <<[stale |-> TRUE]>>]

\* ------------------------------------------------------- pure operations
\* str(x)
Str(v) == IF v = NaN THEN "nan" ELSE v

\* pd.notna(x)
notna(v) == v # NaN

\* (mutant) a missing value is taken for a member of the list
isin_NaNMatches(v, values) == v \in values \cup {NaN}

\* Series.isin(values), elementwise
isin(v, values) == v \in values

\* dict[key] = value
DictSet(d, k, v) == [x \in DOMAIN d \cup {k} |-> IF x = k THEN v ELSE d[x]]

\* dict.get(key, default)
Get(d, k, default) == IF k \in DOMAIN d THEN d[k] ELSE default

\* (mutant) the eval is stored whether it is empty or not
EvalOrSentinel_NoBranch(eval_info) == eval_info

\* the branch on the truthiness of eval_info
EvalOrSentinel(eval_info) ==
    IF DOMAIN eval_info # {} THEN eval_info ELSE NoEvalData

\* the loop of load_webarena_tests over the parsed tests
RECURSIVE LoadLoop(_, _)
LoadLoop(tests, expected) ==
    IF tests = <<>> THEN expected
    ELSE LET test == Head(tests)
             task_id == test.task_id
             eval_info == IF "eval" \in DOMAIN test THEN test.eval ELSE EmptyObj
         IN LoadLoop(Tail(tests), DictSet(expected, task_id, JObj(EvalOrSentinel(eval_info))))

\* the row masks of the two selections
ImpossibleMask(row) == isin(row.result, ImpossibleLabels)

\* (mutant) the second selection names one label only
PossibleMask_OneLabel(row) == ~isin(row.result, {"Exclude - Invalid Answer"})

PossibleMask(row) == ~isin(row.result, ImpossibleLabels)

\* frame['result'].value_counts(): missing values are not counted
ValueCounts(frame) ==
    [v \in {frame[i].result : i \in DOMAIN frame} \ {NaN} |->
        Cardinality({i \in DOMAIN frame : frame[i].result = v})]

\* (mutant) the key is looked up in the wrong case
PassCount_WrongKey(counts) == Get(counts, "pass", 0)

\* possible_results.get('PASS', 0) and total_possible - pass_count
PassCount(counts) == Get(counts, "PASS", 0)
FailCount(total, passed) == total - passed

\* count / total * 100, kept as the exact fraction
Percent(count, total) == [num |-> count * 100, den |-> total]

\* (mutant) the missing value is converted like any other
OverrideReason_NoGuard(v) == Str(v)

\* the result_override_reason of a classified record
OverrideReason(v) == IF notna(v) THEN Str(v) ELSE None

\* the classified record of one row
Classified(row, expected) ==
    LET task_id == row.task_id
    IN [task_id |-> task_id,
        result |-> Str(row.result),
        site |-> Str(row.site),
        intent |-> Str(row.intent),
        created_at |-> Str(row.created_at),
        run_id |-> Str(row.run_id),
        result_override_reason |-> OverrideReason(row.result_override_reason),
        expected_answer |-> Get(expected, task_id, JStr("Unknown"))]

\* the loops over iterrows()
ClassifyAll(frame, expected) == [i \in DOMAIN frame |-> Classified(frame[i], expected)]

\* (mutant) open(path, 'a'): the content is kept
OpenW_Append(file) == [exists |-> TRUE, docs |-> file.docs]

\* open(path, 'w'): the file exists and is empty
OpenW(file) == [exists |-> TRUE, docs |-> <<>>]

\* json.dump(obj, f)
JsonDump(file, doc) == [file EXCEPT !.docs = Append(@, doc)]

\* ----------------------------------------------------------------- state
VARIABLES
    tests_file,           \* webarena_tests.json
    csv_file,             \* Latest_Runs_Dataset.csv
    analysis_file,        \* impossible_exclusions_analysis.json
    summary_file,         \* impossible_exclusions_summary.json
    pc,                   \* the position of the current run
    error,                \* the exception that ended the run, "" if none
    runs,                 \* invocations so far
    clock,                \* datetime.now()
    written,              \* the output files the current run has written
    prior_analysis,       \* the output files as the current run found them
    prior_summary,
    prior_done,           \* the run before the current one completed
    expected_answers, df, impossible_tasks, possible_tasks,
    impossible_breakdown, possible_results, pass_count, total_possible,
    fail_count, excluded_tasks, included_tasks, analysis_report

inputs == <<tests_file, csv_file>>
outputs == <<analysis_file, summary_file, written>>
history == <<prior_analysis, prior_summary, prior_done>>
loaded == <<expected_answers, df>>
split == <<impossible_tasks, possible_tasks, impossible_breakdown>>
stats == <<possible_results, pass_count, total_possible, fail_count>>
records == <<excluded_tasks, included_tasks, analysis_report>>
vars == <<inputs, outputs, history, loaded, split, stats, records, pc, error, runs, clock>>

Init ==
    /\ tests_file \in InputFiles(SeqsUpTo(TestDefs, MaxTests))
    /\ csv_file \in InputFiles(SeqsUpTo(Rows, MaxRows))
    /\ \E stale \in BOOLEAN :
        /\ analysis_file = IF stale THEN StaleFile ELSE NoFile
        /\ summary_file = IF stale THEN StaleFile ELSE NoFile
    /\ pc = "idle"
    /\ error = ""
    /\ runs = 0
    /\ clock = 0
    /\ written = {}
    /\ prior_analysis = NoFile
    /\ prior_summary = NoFile
    /\ prior_done = FALSE
    /\ expected_answers = EmptyObj
    /\ df = <<>>
    /\ impossible_tasks = <<>>
    /\ possible_tasks = <<>>
    /\ impossible_breakdown = EmptyObj
    /\ possible_results = EmptyObj
    /\ pass_count = 0
    /\ total_possible = 0
    /\ fail_count = 0
    /\ excluded_tasks = <<>>
    /\ included_tasks = <<>>
    /\ analysis_report = EmptyObj

\* an uncaught exception ends the run
Raise(exception) ==
    /\ pc' = "failed"
    /\ error' = exception

\* python3 analyze_impossible_exclusions.py: a new process, with fresh locals
Invoke ==
    /\ pc \in {"idle", "done"}
    /\ runs < MaxRuns
    /\ runs' = runs + 1
    /\ pc' = "load_tests"
    /\ error' = ""
    /\ written' = {}
    /\ prior_analysis' = analysis_file
    /\ prior_summary' = summary_file
    /\ prior_done' = (pc = "done")
    /\ expected_answers' = EmptyObj
    /\ df' = <<>>
    /\ impossible_tasks' = <<>>
    /\ possible_tasks' = <<>>
    /\ impossible_breakdown' = EmptyObj
    /\ possible_results' = EmptyObj
    /\ pass_count' = 0
    /\ total_possible' = 0
    /\ fail_count' = 0
    /\ excluded_tasks' = <<>>
    /\ included_tasks' = <<>>
    /\ analysis_report' = EmptyObj
    /\ UNCHANGED <<inputs, analysis_file, summary_file, clock>>

\* (mutant) a tests file that cannot be loaded is taken for an empty list
LoadTests_Swallow ==
    /\ pc = "load_tests"
    /\ expected_answers' =
            IF tests_file.status = "ok" THEN LoadLoop(tests_file.data, EmptyObj) ELSE EmptyObj
    /\ pc' = "load_dataset"
    /\ UNCHANGED <<inputs, outputs, history, df, split, stats, records, error, runs, clock>>

\* expected_answers = load_webarena_tests()
LoadTests ==
    /\ pc = "load_tests"
    /\ IF tests_file.status = "missing"
         THEN Raise("FileNotFoundError") /\ UNCHANGED expected_answers
         ELSE IF tests_file.status = "malformed"
         THEN Raise("JSONDecodeError") /\ UNCHANGED expected_answers
         ELSE /\ expected_answers' = LoadLoop(tests_file.data, EmptyObj)
              /\ pc' = "load_dataset"
              /\ UNCHANGED error
    /\ UNCHANGED <<inputs, outputs, history, df, split, stats, records, runs, clock>>

\* df = pd.read_csv('Latest_Runs_Dataset.csv')
LoadDataset ==
    /\ pc = "load_dataset"
    /\ IF csv_file.status = "missing"
         THEN Raise("FileNotFoundError") /\ UNCHANGED df
         ELSE IF csv_file.status = "malformed"
         THEN Raise("ParserError") /\ UNCHANGED df
         ELSE /\ df' = csv_file.data
              /\ pc' = "classify"
              /\ UNCHANGED error
    /\ UNCHANGED <<inputs, outputs, history, expected_answers, split, stats, records, runs, clock>>

\* the two selections on df['result'] and the breakdown of the impossible rows
Classify ==
    /\ pc = "classify"
    /\ impossible_tasks' = SelectSeq(df, ImpossibleMask)
    /\ possible_tasks' = SelectSeq(df, PossibleMask)
    /\ impossible_breakdown' = ValueCounts(impossible_tasks')
    /\ pc' = "aggregate"
    /\ UNCHANGED <<inputs, outputs, history, loaded, stats, records, error, runs, clock>>

\* the statistics of the possible rows; the printed rates divide by total_possible
Aggregate ==
    /\ pc = "aggregate"
    /\ possible_results' = ValueCounts(possible_tasks)
    /\ pass_count' = PassCount(possible_results')
    /\ total_possible' = Len(possible_tasks)
    /\ fail_count' = FailCount(total_possible', pass_count')
    /\ IF total_possible' = 0
         THEN Raise("ZeroDivisionError")
         ELSE pc' = "build" /\ UNCHANGED error
    /\ UNCHANGED <<inputs, outputs, history, loaded, split, records, runs, clock>>

\* the two iterrows() loops and the analysis_report literal
BuildReport ==
    /\ pc = "build"
    /\ excluded_tasks' = ClassifyAll(impossible_tasks, expected_answers)
    /\ included_tasks' = ClassifyAll(possible_tasks, expected_answers)
    /\ IF Len(df) = 0
         THEN Raise("ZeroDivisionError") /\ UNCHANGED <<analysis_report, clock>>
         ELSE /\ analysis_report' =
                    [analysis_metadata |->
                        [analysis_date |-> clock,
                         dataset_file |-> "Latest_Runs_Dataset.csv",
                         total_tasks |-> Len(df),
                         analysis_purpose |-> "Exclude tasks that cannot be run"],
                     summary_statistics |->
                        [total_tasks |-> Len(df),
                         impossible_tasks |-> Len(impossible_tasks),
                         possible_tasks |-> Len(possible_tasks),
                         exclusion_rate |-> Percent(Len(impossible_tasks), Len(df))],
                     impossible_task_breakdown |-> impossible_breakdown,
                     possible_tasks_results |->
                        [total_count |-> Len(possible_tasks),
                         pass_count |-> pass_count,
                         fail_count |-> fail_count,
                         pass_rate |-> Percent(pass_count, total_possible),
                         fail_rate |-> Percent(fail_count, total_possible),
                         result_breakdown |-> possible_results],
                     excluded_tasks |-> excluded_tasks',
                     included_tasks |-> included_tasks']
              /\ clock' = clock + 1
              /\ pc' = "write_analysis"
              /\ UNCHANGED error
    /\ UNCHANGED <<inputs, outputs, history, loaded, split, stats, runs>>

\* with open('impossible_exclusions_analysis.json', 'w') ...: json.dump(...)
\* open() raises when the path cannot be written
WriteAnalysis ==
    /\ pc = "write_analysis"
    /\ \E writable \in BOOLEAN :
        IF writable
          THEN /\ analysis_file' = JsonDump(OpenW(analysis_file), analysis_report)
               /\ written' = written \cup {"analysis"}
               /\ pc' = "write_summary"
               /\ UNCHANGED error
          ELSE Raise("OSError") /\ UNCHANGED <<analysis_file, written>>
    /\ UNCHANGED <<inputs, summary_file, history, loaded, split, stats, records, runs, clock>>

\* the summary literal and with open('impossible_exclusions_summary.json', 'w') ...
WriteSummary ==
    /\ pc = "write_summary"
    /\ clock' = clock + 1
    /\ LET summary ==
            [analysis_date |-> clock,
             total_tasks |-> Len(df),
             excluded_count |-> Len(impossible_tasks),
             included_count |-> Len(possible_tasks),
             pass_rate_possible_only |-> Percent(pass_count, total_possible),
             fail_rate_possible_only |-> Percent(fail_count, total_possible)]
       IN \E writable \in BOOLEAN :
            IF writable
              THEN /\ summary_file' = JsonDump(OpenW(summary_file), summary)
                   /\ written' = written \cup {"summary"}
                   /\ pc' = "done"
                   /\ UNCHANGED error
              ELSE Raise("OSError") /\ UNCHANGED <<summary_file, written>>
    /\ UNCHANGED <<inputs, analysis_file, history, loaded, split, stats, records, runs>>

Next ==
    \/ Invoke
    \/ LoadTests
    \/ LoadDataset
    \/ Classify
    \/ Aggregate
    \/ BuildReport
    \/ WriteAnalysis
    \/ WriteSummary

Spec == Init /\ [][Next]_vars

TypeOK ==
    /\ pc \in {"idle", "load_tests", "load_dataset", "classify", "aggregate",
               "build", "write_analysis", "write_summary", "done", "failed"}
    /\ runs \in 0..MaxRuns
    /\ written \subseteq {"analysis", "summary"}

\* ------------------------------------------------------ claim vocabulary
Range(f) == {f[i] : i \in DOMAIN f}
Count(f, x) == Cardinality({i \in DOMAIN f : f[i] = x})
Last(f) == f[Len(f)]

RECURSIVE SumCounts(_)
SumCounts(counts) ==
    IF DOMAIN counts = {} THEN 0
    ELSE LET k == CHOOSE x \in DOMAIN counts : TRUE
         IN counts[k] + SumCounts([x \in DOMAIN counts \ {k} |-> counts[x]])

LoadErrors == {"FileNotFoundError", "JSONDecodeError", "ParserError"}

\* the run has made its two selections
SplitDone ==
    \/ pc \in {"aggregate", "build", "write_analysis", "write_summary", "done"}
    \/ pc = "failed" /\ error \notin LoadErrors

\* the run has built its classified records and its report
ReportBuilt ==
    \/ pc \in {"write_analysis", "write_summary", "done"}
    \/ pc = "failed" /\ error = "OSError"

\* the detailed report the current run wrote
Reported == Last(analysis_file.docs)

LabelA == "Exclude - Invalid Answer"
LabelE == "Exclude - Invalid Environment"

\* C1: in the detailed report a run wrote, total_tasks = impossible_tasks +
\* possible_tasks, the counts are the sizes of the dataset and of the two
\* subsets, and every row of the dataset, repeated as often as it occurs, is in
\* exactly one of the two subsets.
C1_Partition ==
    "analysis" \in written =>
        LET st == Reported.summary_statistics
        IN /\ st.total_tasks = st.impossible_tasks + st.possible_tasks
           /\ st.total_tasks = Len(csv_file.data)
           /\ st.impossible_tasks = Len(impossible_tasks)
           /\ st.possible_tasks = Len(possible_tasks)
           /\ \A r \in Range(csv_file.data) \cup Range(impossible_tasks) \cup Range(possible_tasks) :
                /\ Count(impossible_tasks, r) + Count(possible_tasks, r) = Count(csv_file.data, r)
                /\ Count(impossible_tasks, r) = 0 \/ Count(possible_tasks, r) = 0

C1_Witness ==
    /\ pc = "done"
    /\ Len(df) = 2
    /\ df[1].task_id = df[2].task_id
    /\ Len(impossible_tasks) = 1
    /\ Len(possible_tasks) = 1

\* C2: in the detailed report a run wrote, pass_count is the number of possible
\* rows whose result is PASS, fail_count is the number of the other possible
\* rows (total minus pass_count), and the two add up to possible_tasks.
C2_PassFail ==
    "analysis" \in written =>
        LET p == Reported.possible_tasks_results
            passing == {i \in DOMAIN possible_tasks : possible_tasks[i].result = "PASS"}
        IN /\ p.pass_count = Cardinality(passing)
           /\ p.fail_count = p.total_count - p.pass_count
           /\ p.fail_count = Cardinality(DOMAIN possible_tasks \ passing)
           /\ p.pass_count + p.fail_count = Reported.summary_statistics.possible_tasks

C2_Witness ==
    /\ pc = "done"
    /\ Reported.possible_tasks_results.pass_count = 1
    /\ Reported.possible_tasks_results.fail_count = 1
    /\ Reported.possible_tasks_results.pass_rate = [num |-> 100, den |-> 2]
    /\ \E i \in DOMAIN possible_tasks : possible_tasks[i].result = "FAIL"

\* C3: a run whose possible subset is empty does not end in a division by zero.
C3_EmptyPossibleDoesNotRaise ==
    (SplitDone /\ Len(possible_tasks) = 0) => error # "ZeroDivisionError"

\* C4: a run that has ended wrote both output files or neither.
C4_BothOrNeither ==
    pc \in {"done", "failed"} => written \in {{}, {"analysis", "summary"}}

\* C5: when an input file is missing or malformed the run stops at the load,
\* writes no output file and leaves both output files as it found them.
C5_LoadFailureWritesNothing ==
    (runs > 0 /\ (tests_file.status # "ok" \/ csv_file.status # "ok")) =>
        /\ pc \in {"load_tests", "load_dataset", "failed"}
        /\ pc = "failed" => error \in LoadErrors
        /\ written = {}
        /\ analysis_file = prior_analysis
        /\ summary_file = prior_summary

C5_Witness ==
    /\ pc = "failed"
    /\ error = "ParserError"
    /\ tests_file.status = "ok"
    /\ analysis_file = StaleFile
    /\ summary_file = StaleFile

\* the expected answer the task definitions give for a task id: the eval of the
\* definition with that id (of the last one, when the id is repeated)
Defined(id) == {i \in DOMAIN tests_file.data : tests_file.data[i].task_id = id}
ExpectedFor(id) ==
    IF Defined(id) = {} THEN JStr("Unknown")
    ELSE LET def == tests_file.data[CHOOSE i \in Defined(id) : \A j \in Defined(id) : j <= i]
         IN IF "eval" \in DOMAIN def /\ def.eval # EmptyObj
              THEN JObj(def.eval)
              ELSE JObj([eval_types |-> <<>>, note |-> "No eval data"])

\* the classified records are those of the rows, in the order of the rows
RecordsOf(recs, frame) ==
    /\ Len(recs) = Len(frame)
    /\ \A i \in DOMAIN frame : recs[i].task_id = frame[i].task_id

\* C6: every row of either subset has a classified record, whose expected_answer
\* is the eval of the task definition with the row's task_id when that eval is
\* present and not empty, the No-eval-data object when the definition has no
\* eval or an empty one, and the string Unknown when no definition has the id.
C6_ExpectedAnswer ==
    ReportBuilt =>
        /\ RecordsOf(excluded_tasks, impossible_tasks)
        /\ RecordsOf(included_tasks, possible_tasks)
        /\ \A rec \in Range(excluded_tasks) \cup Range(included_tasks) :
                rec.expected_answer = ExpectedFor(rec.task_id)
        /\ "analysis" \in written =>
                /\ Reported.excluded_tasks = excluded_tasks
                /\ Reported.included_tasks = included_tasks

C6_Witness ==
    /\ pc = "done"
    /\ \E i \in DOMAIN tests_file.data :
            /\ tests_file.data[i].task_id = 1
            /\ "eval" \in DOMAIN tests_file.data[i]
            /\ tests_file.data[i].eval = EmptyObj
    /\ \E rec \in Range(excluded_tasks) :
            rec.task_id = 1 /\ rec.expected_answer = JObj(NoEvalData)
    /\ \E rec \in Range(included_tasks) :
            rec.task_id = 2 /\ rec.expected_answer = JStr("Unknown")

\* C7: once the rows are split, a row is in the impossible subset exactly when
\* its result is one of the two Exclude labels and in the possible subset
\* otherwise (a missing result included), so that rows with the same result are
\* in the same subset whatever their other columns hold.
C7_Classification ==
    SplitDone =>
        /\ \A r \in Range(df) :
                IF r.result = LabelA \/ r.result = LabelE
                  THEN Count(impossible_tasks, r) = Count(df, r) /\ Count(possible_tasks, r) = 0
                  ELSE Count(possible_tasks, r) = Count(df, r) /\ Count(impossible_tasks, r) = 0
        /\ Range(impossible_tasks) \cup Range(possible_tasks) \subseteq Range(df)
        /\ \A r1, r2 \in Range(df) :
                r1.result = r2.result =>
                    /\ (r1 \in Range(impossible_tasks)) = (r2 \in Range(impossible_tasks))
                    /\ (r1 \in Range(possible_tasks)) = (r2 \in Range(possible_tasks))

C7_Witness ==
    /\ SplitDone
    /\ Len(df) = 2
    /\ df[1].result = NaN
    /\ df[2].result = NaN
    /\ df[1].task_id # df[2].task_id
    /\ df[1].result_override_reason # df[2].result_override_reason
    /\ possible_tasks = df

\* the content of an output file without the analysis_date of its reports
StripAnalysis(file) ==
    [file EXCEPT !.docs =
        [i \in DOMAIN @ |->
            IF "analysis_metadata" \in DOMAIN @[i]
              THEN [@[i] EXCEPT !.analysis_metadata.analysis_date = 0]
              ELSE @[i]]]
StripSummary(file) ==
    [file EXCEPT !.docs =
        [i \in DOMAIN @ |->
            IF "analysis_date" \in DOMAIN @[i]
              THEN [@[i] EXCEPT !.analysis_date = 0]
              ELSE @[i]]]

\* C8: when a run completes after a completed run on the same inputs, each
\* output file holds one report, equal to the one the earlier run left but for
\* its analysis_date.
C8_Idempotent ==
    (pc = "done" /\ prior_done) =>
        /\ Len(analysis_file.docs) = 1
        /\ Len(summary_file.docs) = 1
        /\ StripAnalysis(analysis_file) = StripAnalysis(prior_analysis)
        /\ StripSummary(summary_file) = StripSummary(prior_summary)

C8_Witness ==
    /\ pc = "done"
    /\ prior_done
    /\ runs = 2
    /\ analysis_file # prior_analysis
    /\ summary_file # prior_summary
    /\ Len(Reported.excluded_tasks) = 1
    /\ Len(Reported.included_tasks) = 1

\* C9: the result_override_reason of a classified record is null when the row
\* has none, and the row's value otherwise; it is never the text nan.
OverrideOf(recs, frame) ==
    \A i \in DOMAIN frame :
        /\ recs[i].result_override_reason # "nan"
        /\ IF frame[i].result_override_reason = NaN
             THEN recs[i].result_override_reason = None
             ELSE recs[i].result_override_reason = frame[i].result_override_reason

C9_OverrideReason ==
    ReportBuilt =>
        /\ RecordsOf(excluded_tasks, impossible_tasks)
        /\ RecordsOf(included_tasks, possible_tasks)
        /\ OverrideOf(excluded_tasks, impossible_tasks)
        /\ OverrideOf(included_tasks, possible_tasks)

C9_Witness ==
    /\ pc = "done"
    /\ Len(impossible_tasks) = 1
    /\ Len(possible_tasks) = 1
    /\ impossible_tasks[1].result_override_reason = NaN
    /\ excluded_tasks[1].result_override_reason = None
    /\ possible_tasks[1].result_override_reason = "env down"
    /\ included_tasks[1].result_override_reason = "env down"

\* C10: in the detailed report a run wrote, the counts of result_breakdown add
\* up to total_count, which is pass_count + fail_count.
C10_BreakdownSums ==
    "analysis" \in written =>
        LET p == Reported.possible_tasks_results
        IN /\ p.total_count = p.pass_count + p.fail_count
           /\ SumCounts(p.result_breakdown) = p.total_count
====
